---- MODULE Spec2Model ----
(***************************************************************************)
(* Bounded-depth adversarial search for a vertical-drop four-in-a-row      *)
(* game: the move generator, the static evaluator and the three search     *)
(* algorithms of four_in_a_row.py, run against a Board collaborator.       *)
(*                                                                         *)
(* The Board class (board.py) is not part of the sources at hand; its      *)
(* operations are modelled from the interface the specification gives.     *)
(***************************************************************************)
EXTENDS Integers, Sequences, FiniteSets, TLC

\* ------------------------------------------------------------------------
\* Bounds of the model
\* ------------------------------------------------------------------------
\* the deepest search asked for
MaxDepth == 3
\* the longest game played on the big board
MaxDiscs == 8
\* the longest game played on the boards of the evaluator
EvalDiscs == 6

\* The sizes (rows, cols) of the boards played on: the small boards fill up
\* within a few moves; the big board is the smallest with lines of four in all
\* four orientations.
SmallBoards == {<<1, 4>>, <<2, 4>>}
BigBoard == <<4, 4>>
EvalBoards == {<<4, 4>>, <<4, 5>>, <<5, 4>>}

\* ------------------------------------------------------------------------
\* Values of the program
\* ------------------------------------------------------------------------
EMPTY_SLOT == 0
PLAYER1 == 1
PLAYER2 == 2
invalid_slot == 0 - 1
\* The "no move" result of a search (Python None); columns are 0-based.
None == 0 - 1
\* sys.maxsize is 2^63 - 1 in the program, far above every score.  The
\* integers of the model are 32 bits wide: it takes a value above every
\* score of its boards that a mean of expectimax can still hold.
MaxSize == 10000000

Players == {PLAYER1, PLAYER2}

\* the weights growing by one with each disc in the window
weights_linear == <<0, 1, 2, 3, 4>>

weights == <<0, 1, 4, 16, 1000>>

VARIABLES board, turn, call
vars == <<board, turn, call>>

\* ------------------------------------------------------------------------
\* Board collaborator.  A board is its dimensions and its grid, a list of
\* rows, each a list of slots: grid[r + 1][c + 1] is the slot of row r and
\* column c of the program, r = 0 the top row, c = 0 the left column.
\* ------------------------------------------------------------------------
NewBoard(R, C) ==
    [rows |-> R, cols |-> C,
     grid |-> [r \in 1..R |-> [c \in 1..C |-> EMPTY_SLOT]]]

\* board.row(r): the slots of row r, left to right, as a list
Row(b, r) == b.grid[r + 1]

\* board.col(c): the slots of column c, top to bottom, as a list
Col(b, c) == [i \in 1..b.rows |-> b.grid[i][c + 1]]

\* board.placeable(c): the column has room for another disc
Placeable(b, c) == b.grid[1][c + 1] = EMPTY_SLOT

\* the row a disc dropped in column c comes to rest in: the lowest empty one
RECURSIVE LandingRow(_, _, _)
LandingRow(b, c, r) ==
    IF b.grid[r + 1][c + 1] = EMPTY_SLOT THEN r ELSE LandingRow(b, c, r - 1)

\* board.place(player, c): drop the player's disc in column c
Place(b, player, c) ==
    [b EXCEPT !.grid[LandingRow(b, c, b.rows - 1) + 1][c + 1] = player]

\* board.clone(): an independent copy
Clone(b) == b

\* the four directions a line of four runs in, as (row step, column step)
Directions == {<<0, 1>>, <<1, 0>>, <<1, 1>>, <<1, 0 - 1>>}

\* four connected discs of one player start at (r, c) and run in direction d
FourFrom(b, r, c, d) ==
    /\ r + 3 * d[1] < b.rows
    /\ c + 3 * d[2] < b.cols
    /\ c + 3 * d[2] >= 0
    /\ \A i \in 1..3 :
          b.grid[r + i * d[1] + 1][c + i * d[2] + 1] = b.grid[r + 1][c + 1]

\* the (row, column) places where a line of four discs of one player starts
Fours(b) ==
    {rc \in (0..(b.rows - 1)) \X (0..(b.cols - 1)) :
        /\ b.grid[rc[1] + 1][rc[2] + 1] # EMPTY_SLOT
        /\ \E d \in Directions : FourFrom(b, rc[1], rc[2], d)}

\* board.who_wins(): the winning player, or None
WhoWins(b) ==
    LET f == Fours(b)
    IN  IF f = {} THEN None
        ELSE LET rc == CHOOSE x \in f : TRUE
             IN  b.grid[rc[1] + 1][rc[2] + 1]

Full(b) == \A c \in 0..(b.cols - 1) : ~Placeable(b, c)

\* board.terminal(): the game has ended, by a win or by a full board
Terminal(b) == Full(b) \/ Fours(b) # {}

Discs(b) ==
    Cardinality({rc \in (1..b.rows) \X (1..b.cols) :
                    b.grid[rc[1]][rc[2]] # EMPTY_SLOT})

Other(player) == IF player = PLAYER1 THEN PLAYER2 ELSE PLAYER1

\* ------------------------------------------------------------------------
\* get_child_boards
\* ------------------------------------------------------------------------
\* get_child_boards placing on the caller's board instead of on a clone
RECURSIVE GetChildBoardsLoopNoClone(_, _, _, _)
GetChildBoardsLoopNoClone(player, cur, c, res) ==
    IF c >= cur.cols THEN [res |-> res, input |-> cur]
    ELSE IF Placeable(cur, c)
         THEN GetChildBoardsLoopNoClone(player, Place(cur, player, c), c + 1,
                  Append(res, <<c, Place(cur, player, c)>>))
         ELSE GetChildBoardsLoopNoClone(player, cur, c + 1, res)

\* The loop over the columns c, c+1, ..: res is the list built so far and
\* cur the state of the caller's board object.
RECURSIVE GetChildBoardsLoop(_, _, _, _)
GetChildBoardsLoop(player, cur, c, res) ==
    IF c >= cur.cols THEN [res |-> res, input |-> cur]
    ELSE IF Placeable(cur, c)
         THEN GetChildBoardsLoop(player, cur, c + 1,
                  Append(res, <<c, Place(Clone(cur), player, c)>>))
         ELSE GetChildBoardsLoop(player, cur, c + 1, res)

GetChildBoards(player, b) == GetChildBoardsLoop(player, b, 0, <<>>)

\* ------------------------------------------------------------------------
\* evaluate
\* ------------------------------------------------------------------------
\* a finite list given by its entries, as a list value
List(f) == f \o <<>>

Pad(n) == [i \in 1..n |-> invalid_slot]

\* left_revolved shifting the rows as right_revolved does
left_revolved_mirrored(b) ==
    List([r \in 1..b.rows |->
            Pad(b.rows - 1 - (r - 1)) \o Row(b, r - 1) \o Pad(r - 1)])

\* rows shifted right by their index, padded to a common width
left_revolved(b) ==
    List([r \in 1..b.rows |->
            Pad(r - 1) \o Row(b, r - 1) \o Pad(b.rows - 1 - (r - 1))])

\* rows shifted right by their mirrored index
right_revolved(b) ==
    List([r \in 1..b.rows |->
            Pad(b.rows - 1 - (r - 1)) \o Row(b, r - 1) \o Pad(r - 1)])

\* the 4-slot windows list[c:c + 4], c in range(n), of a list
Windows(list, n) == [c \in 1..n |-> SubSeq(list, c, c + 3)]

\* the windows c[r:r + 4], r in range(n), of column j of zip(*grid)
ZipWindows(grid, j, n) ==
    [r \in 1..n |-> <<grid[r][j], grid[r + 1][j], grid[r + 2][j], grid[r + 3][j]>>]

\* the concatenation of the lists f[1], .., f[n]
RECURSIVE Flatten(_, _)
Flatten(f, n) == IF n = 0 THEN <<>> ELSE Flatten(f, n - 1) \o f[n]

Range0(n) == IF n > 0 THEN n ELSE 0

\* the list seg of all 4-slot segments of the board
Segments(b) ==
    LET nr == Range0(b.rows - 3)
        nc == Range0(b.cols - 3)
        lr == left_revolved(b)
        rr == right_revolved(b)
        width == b.cols + b.rows - 1
    IN     Flatten([r \in 1..b.rows |-> Windows(Row(b, r - 1), nc)], b.rows)
        \o Flatten([c \in 1..b.cols |-> Windows(Col(b, c - 1), nr)], b.cols)
        \o Flatten([j \in 1..width |-> ZipWindows(lr, j, nr)], width)
        \o Flatten([j \in 1..width |-> ZipWindows(rr, j, nr)], width)

\* s.count(v), for a 4-slot segment
Count(s, v) ==
      (IF s[1] = v THEN 1 ELSE 0) + (IF s[2] = v THEN 1 ELSE 0)
    + (IF s[3] = v THEN 1 ELSE 0) + (IF s[4] = v THEN 1 ELSE 0)

\* sum([s * w for s, w in zip(tally, weights)])
WeightedSum(tally) ==
    tally[1] * weights[1] + tally[2] * weights[2] + tally[3] * weights[3]
        + tally[4] * weights[4] + tally[5] * weights[5]

\* tally[n] += 1, for a tally indexed from 0 in the program
Bump(tally, n) == [tally EXCEPT ![n + 1] = @ + 1]

\* the loop "for s in seg" from entry i on
RECURSIVE ScoreLoop(_, _, _, _, _, _)
ScoreLoop(seg, i, player, adversary, score, adv_score) ==
    IF i > Len(seg) THEN WeightedSum(score) - WeightedSum(adv_score)
    ELSE LET s == seg[i]
             np == Count(s, player)
             na == Count(s, adversary)
         IN  IF Count(s, invalid_slot) > 0
             THEN ScoreLoop(seg, i + 1, player, adversary, score, adv_score)
             ELSE ScoreLoop(seg, i + 1, player, adversary,
                            IF na = 0 THEN Bump(score, np) ELSE score,
                            IF np = 0 THEN Bump(adv_score, na) ELSE adv_score)

\* evaluate taking PLAYER2 for the adversary of either player
EvaluateFixedAdversary(player, b) ==
    ScoreLoop(Segments(b), 1, player, PLAYER2,
              <<0, 0, 0, 0, 0>>, <<0, 0, 0, 0, 0>>)

Evaluate(player, b) ==
    LET adversary == IF player = PLAYER1 THEN PLAYER2 ELSE PLAYER1
    IN  ScoreLoop(Segments(b), 1, player, adversary,
                  <<0, 0, 0, 0, 0>>, <<0, 0, 0, 0, 0>>)

\* ------------------------------------------------------------------------
\* The search algorithms.  A search frame returns (placement, score); the
\* model adds calls, the number of invocations of get_child_boards made in
\* and below the frame, and raised, whether the frame raised an exception.
\* ------------------------------------------------------------------------
Result(placement, score, calls, raised) ==
    [col |-> placement, score |-> score, calls |-> calls, raised |-> raised]

\* return None, evaluate(max_player, board)
Leaf(max_player, b) == Result(None, Evaluate(max_player, b), 0, FALSE)

\* max(a, b) and min(a, b) of Python
Max(a, b) == IF a >= b THEN a ELSE b
Min(a, b) == IF a <= b THEN a ELSE b

\* ------------------------------------------------------------------------
\* minimax
\* ------------------------------------------------------------------------
RECURSIVE MinimaxValue(_, _, _, _)
RECURSIVE MinimaxMaxLoop(_, _, _, _, _, _, _)
RECURSIVE MinimaxMinLoop(_, _, _, _, _, _, _)

\* max_value with score >= local_max: the last of the best moves wins
RECURSIVE MinimaxMaxLoopLastBest(_, _, _, _, _, _, _)
MinimaxMaxLoopLastBest(max_player, moves, depth_limit, k, placement, local_max, calls) ==
    IF k > Len(moves) THEN Result(placement, local_max, calls, FALSE)
    ELSE LET v == MinimaxValue(max_player, Other(max_player), moves[k][2],
                               depth_limit - 1)
         IN  IF v.score >= local_max
             THEN MinimaxMaxLoopLastBest(max_player, moves, depth_limit, k + 1,
                                         moves[k][1], v.score, calls + v.calls)
             ELSE MinimaxMaxLoopLastBest(max_player, moves, depth_limit, k + 1,
                                         placement, local_max, calls + v.calls)

\* the for loop of max_value from move k on
MinimaxMaxLoop(max_player, moves, depth_limit, k, placement, local_max, calls) ==
    IF k > Len(moves) THEN Result(placement, local_max, calls, FALSE)
    ELSE LET v == MinimaxValue(max_player, Other(max_player), moves[k][2],
                               depth_limit - 1)
         IN  IF v.score > local_max
             THEN MinimaxMaxLoop(max_player, moves, depth_limit, k + 1,
                                 moves[k][1], v.score, calls + v.calls)
             ELSE MinimaxMaxLoop(max_player, moves, depth_limit, k + 1,
                                 placement, local_max, calls + v.calls)

\* min_value with the comparison of max_value: score > local_min
RECURSIVE MinimaxMinLoopKeepsGreater(_, _, _, _, _, _, _)
MinimaxMinLoopKeepsGreater(max_player, moves, depth_limit, k, placement, local_min, calls) ==
    IF k > Len(moves) THEN Result(placement, local_min, calls, FALSE)
    ELSE LET v == MinimaxValue(max_player, max_player, moves[k][2],
                               depth_limit - 1)
         IN  IF v.score > local_min
             THEN MinimaxMinLoopKeepsGreater(max_player, moves, depth_limit,
                                             k + 1, moves[k][1], v.score,
                                             calls + v.calls)
             ELSE MinimaxMinLoopKeepsGreater(max_player, moves, depth_limit,
                                             k + 1, placement, local_min,
                                             calls + v.calls)

\* the for loop of min_value from move k on
MinimaxMinLoop(max_player, moves, depth_limit, k, placement, local_min, calls) ==
    IF k > Len(moves) THEN Result(placement, local_min, calls, FALSE)
    ELSE LET v == MinimaxValue(max_player, max_player, moves[k][2],
                               depth_limit - 1)
         IN  IF v.score < local_min
             THEN MinimaxMinLoop(max_player, moves, depth_limit, k + 1,
                                 moves[k][1], v.score, calls + v.calls)
             ELSE MinimaxMinLoop(max_player, moves, depth_limit, k + 1,
                                 placement, local_min, calls + v.calls)

\* max_value starting local_max at 0 instead of -sys.maxsize
MinimaxMaxValueFromZero(max_player, player, b, depth_limit) ==
    MinimaxMaxLoop(max_player, GetChildBoards(player, b).res, depth_limit,
                   1, None, 0, 1)

MinimaxMaxValue(max_player, player, b, depth_limit) ==
    MinimaxMaxLoop(max_player, GetChildBoards(player, b).res, depth_limit,
                   1, None, 0 - MaxSize, 1)

MinimaxMinValue(max_player, player, b, depth_limit) ==
    MinimaxMinLoop(max_player, GetChildBoards(player, b).res, depth_limit,
                   1, None, MaxSize, 1)

\* value without the test of board.terminal()
MinimaxValueNoTerminal(max_player, player, b, depth_limit) ==
    IF depth_limit = 0
    THEN Leaf(max_player, b)
    ELSE IF max_player = player
         THEN MinimaxMaxValue(max_player, player, b, depth_limit)
         ELSE MinimaxMinValue(max_player, player, b, depth_limit)

MinimaxValue(max_player, player, b, depth_limit) ==
    IF depth_limit = 0 \/ Terminal(b)
    THEN Leaf(max_player, b)
    ELSE IF max_player = player
         THEN MinimaxMaxValue(max_player, player, b, depth_limit)
         ELSE MinimaxMinValue(max_player, player, b, depth_limit)

Minimax(player, b, depth_limit) == MinimaxValue(player, player, b, depth_limit)

\* ------------------------------------------------------------------------
\* alphabeta
\* ------------------------------------------------------------------------
RECURSIVE AlphabetaValue(_, _, _, _, _, _)
RECURSIVE AlphabetaMaxLoop(_, _, _, _, _, _, _, _, _)
RECURSIVE AlphabetaMinLoop(_, _, _, _, _, _, _, _, _)

\* the for loop of max_value from move k on; it is left by the break
AlphabetaMaxLoop(max_player, moves, depth, alpha, beta, k, placement, local_max, calls) ==
    IF k > Len(moves) THEN Result(placement, local_max, calls, FALSE)
    ELSE LET v == AlphabetaValue(max_player, Other(max_player), moves[k][2],
                                 depth - 1, alpha, beta)
             better == v.score > local_max
             new_placement == IF better THEN moves[k][1] ELSE placement
             new_max == IF better THEN v.score ELSE local_max
             new_alpha == Max(alpha, v.score)
         IN  IF new_alpha >= beta
             THEN Result(new_placement, new_max, calls + v.calls, FALSE)
             ELSE AlphabetaMaxLoop(max_player, moves, depth, new_alpha, beta,
                                   k + 1, new_placement, new_max,
                                   calls + v.calls)

\* min_value testing for the break before it records the score
RECURSIVE AlphabetaMinLoopBreaksFirst(_, _, _, _, _, _, _, _, _)
AlphabetaMinLoopBreaksFirst(max_player, moves, depth, alpha, beta, k, placement, local_min, calls) ==
    IF k > Len(moves) THEN Result(placement, local_min, calls, FALSE)
    ELSE LET v == AlphabetaValue(max_player, max_player, moves[k][2],
                                 depth - 1, alpha, beta)
             better == v.score < local_min
             new_placement == IF better THEN moves[k][1] ELSE placement
             new_min == IF better THEN v.score ELSE local_min
             new_beta == Min(beta, v.score)
         IN  IF new_beta <= alpha
             THEN Result(placement, local_min, calls + v.calls, FALSE)
             ELSE AlphabetaMinLoopBreaksFirst(max_player, moves, depth, alpha,
                                              new_beta, k + 1, new_placement,
                                              new_min, calls + v.calls)

\* the for loop of min_value from move k on; it is left by the break
AlphabetaMinLoop(max_player, moves, depth, alpha, beta, k, placement, local_min, calls) ==
    IF k > Len(moves) THEN Result(placement, local_min, calls, FALSE)
    ELSE LET v == AlphabetaValue(max_player, max_player, moves[k][2],
                                 depth - 1, alpha, beta)
             better == v.score < local_min
             new_placement == IF better THEN moves[k][1] ELSE placement
             new_min == IF better THEN v.score ELSE local_min
             new_beta == Min(beta, v.score)
         IN  IF new_beta <= alpha
             THEN Result(new_placement, new_min, calls + v.calls, FALSE)
             ELSE AlphabetaMinLoop(max_player, moves, depth, alpha, new_beta,
                                   k + 1, new_placement, new_min,
                                   calls + v.calls)

AlphabetaMaxValue(max_player, player_max, board_max, depth, alpha, beta) ==
    AlphabetaMaxLoop(max_player, GetChildBoards(player_max, board_max).res,
                     depth, alpha, beta, 1, None, 0 - MaxSize, 1)

AlphabetaMinValue(max_player, min_player, board_min, depth, alpha, beta) ==
    AlphabetaMinLoop(max_player, GetChildBoards(min_player, board_min).res,
                     depth, alpha, beta, 1, None, MaxSize, 1)

\* value without the test of board.terminal()
AlphabetaValueNoTerminal(max_player, player, b, depth, alpha, beta) ==
    IF depth = 0
    THEN Leaf(max_player, b)
    ELSE IF max_player = player
         THEN AlphabetaMaxValue(max_player, player, b, depth, alpha, beta)
         ELSE AlphabetaMinValue(max_player, player, b, depth, alpha, beta)

AlphabetaValue(max_player, player, b, depth, alpha, beta) ==
    IF depth = 0 \/ Terminal(b)
    THEN Leaf(max_player, b)
    ELSE IF max_player = player
         THEN AlphabetaMaxValue(max_player, player, b, depth, alpha, beta)
         ELSE AlphabetaMinValue(max_player, player, b, depth, alpha, beta)

Alphabeta(player, b, depth_limit) ==
    AlphabetaValue(player, player, b, depth_limit, 0 - MaxSize, MaxSize)

\* ------------------------------------------------------------------------
\* expectimax
\*
\* The scores of expectimax are means, 1 / len(moves) of a sum.  The model
\* holds a score as an integer, the exact score times the unit of its frame:
\* a frame's unit is what makes the means below it whole, the least common
\* multiple of the possible numbers of moves for each expectation level.  The
\* rounding of the program's floating-point sums is not modelled.
\* ------------------------------------------------------------------------
RECURSIVE Gcd(_, _)
Gcd(a, b) == IF b = 0 THEN a ELSE Gcd(b, a % b)

\* the least common multiple of 1, .., n
RECURSIVE LcmUpTo(_)
LcmUpTo(n) == IF n <= 1 THEN 1 ELSE (LcmUpTo(n - 1) * n) \div Gcd(LcmUpTo(n - 1), n)

\* the unit of the score of a frame with depth_limit left; maximizing says
\* whether the frame is the max player's
RECURSIVE Unit(_, _, _)
Unit(ncols, maximizing, depth_limit) ==
    IF depth_limit = 0 THEN 1
    ELSE IF maximizing THEN Unit(ncols, FALSE, depth_limit - 1)
    ELSE LcmUpTo(ncols) * Unit(ncols, TRUE, depth_limit - 1)

RECURSIVE ExpectimaxValue(_, _, _, _)
RECURSIVE ExpectimaxMaxLoop(_, _, _, _, _, _, _, _)
RECURSIVE ExpectimaxMinLoop(_, _, _, _, _, _, _, _)

\* the for loop of max_value from move k on
ExpectimaxMaxLoop(max_player, moves, depth_limit, k, placement, local_max, calls, raised) ==
    IF k > Len(moves) \/ raised THEN Result(placement, local_max, calls, raised)
    ELSE LET v == ExpectimaxValue(max_player, Other(max_player), moves[k][2],
                                  depth_limit - 1)
         IN  IF v.raised
             THEN Result(placement, local_max, calls + v.calls, TRUE)
             ELSE IF v.score > local_max
             THEN ExpectimaxMaxLoop(max_player, moves, depth_limit, k + 1,
                                    moves[k][1], v.score, calls + v.calls, FALSE)
             ELSE ExpectimaxMaxLoop(max_player, moves, depth_limit, k + 1,
                                    placement, local_max, calls + v.calls, FALSE)

\* the for loop of min_value from move k on: expected_value += p * score,
\* with p = 1 / len(moves)
ExpectimaxMinLoop(max_player, moves, depth_limit, k, p_num, expected_value, calls, raised) ==
    IF k > Len(moves) \/ raised THEN Result(None, expected_value, calls, raised)
    ELSE LET v == ExpectimaxValue(max_player, max_player, moves[k][2],
                                  depth_limit - 1)
         IN  IF v.raised
             THEN Result(None, expected_value, calls + v.calls, TRUE)
             ELSE ExpectimaxMinLoop(max_player, moves, depth_limit, k + 1,
                                    p_num, expected_value + p_num * v.score,
                                    calls + v.calls, FALSE)

ExpectimaxMaxValue(max_player, player, b, depth_limit) ==
    ExpectimaxMaxLoop(max_player, GetChildBoards(player, b).res, depth_limit,
                      1, None, 0 - MaxSize, 1, FALSE)

\* 1 / len(moves) raises ZeroDivisionError on an empty list of moves
ExpectimaxMinValue(max_player, player, b, depth_limit) ==
    LET moves == GetChildBoards(player, b).res
    IN  IF Len(moves) = 0 THEN Result(None, 0, 1, TRUE)
        ELSE ExpectimaxMinLoop(max_player, moves, depth_limit, 1,
                               LcmUpTo(b.cols) \div Len(moves), 0, 1, FALSE)

\* value without the test of board.terminal()
ExpectimaxValueNoTerminal(max_player, player, b, depth_limit) ==
    IF depth_limit = 0
    THEN Result(None,
                Evaluate(max_player, b)
                    * Unit(b.cols, max_player = player, depth_limit),
                0, FALSE)
    ELSE IF max_player = player
         THEN ExpectimaxMaxValue(max_player, player, b, depth_limit)
         ELSE ExpectimaxMinValue(max_player, player, b, depth_limit)

ExpectimaxValue(max_player, player, b, depth_limit) ==
    IF depth_limit = 0 \/ Terminal(b)
    THEN Result(None,
                Evaluate(max_player, b)
                    * Unit(b.cols, max_player = player, depth_limit),
                0, FALSE)
    ELSE IF max_player = player
         THEN ExpectimaxMaxValue(max_player, player, b, depth_limit)
         ELSE ExpectimaxMinValue(max_player, player, b, depth_limit)

Expectimax(player, b, depth_limit) ==
    ExpectimaxValue(player, player, b, depth_limit)

\* ------------------------------------------------------------------------
\* The program as a state machine: a game is played on the board, and
\* between two moves the caller may invoke one function of the core on it.
\* call holds the invocation and what it returned, until the caller has
\* taken the result; before is the board as it was handed in.
\* ------------------------------------------------------------------------
NoCall == [op |-> "none"]

SearchCall(op, player, depth_limit, v, unit) ==
    [op |-> op, player |-> player, depth |-> depth_limit,
     col |-> IF v.raised THEN None ELSE v.col, score |-> v.score,
     unit |-> unit, calls |-> v.calls, raised |-> v.raised,
     res |-> <<>>, before |-> board]

InitOn(size) ==
    /\ board = NewBoard(size[1], size[2])
    /\ turn = PLAYER1
    /\ call = NoCall

\* the game loop drops the mover's disc in a column; the game is cut off
\* after cap discs
Drop(c, cap) ==
    /\ call = NoCall
    /\ ~Terminal(board)
    /\ Discs(board) < cap
    /\ Placeable(board, c)
    /\ board' = Place(board, turn, c)
    /\ turn' = Other(turn)
    /\ UNCHANGED call

PlaceDisc(c) == Drop(c, MaxDiscs)

\* who a search is run for: the mover, while the game is on
Movers == IF Terminal(board) THEN Players ELSE {turn}

CallGetChildBoards(player) ==
    /\ call = NoCall
    /\ LET g == GetChildBoards(player, board)
       IN  /\ call' = [op |-> "get_child_boards", player |-> player,
                       depth |-> 0, col |-> None, score |-> 0, unit |-> 1,
                       calls |-> 1, raised |-> FALSE,
                       res |-> g.res, before |-> board]
           /\ board' = g.input
    /\ UNCHANGED turn

CallEvaluate(player) ==
    /\ call = NoCall
    /\ call' = [op |-> "evaluate", player |-> player,
                depth |-> 0, col |-> None, score |-> Evaluate(player, board),
                unit |-> 1, calls |-> 0, raised |-> FALSE,
                res |-> <<>>, before |-> board]
    /\ UNCHANGED <<board, turn>>

\* The caller's board object after a search: of the calls of a search only
\* get_child_boards at the root (in max_value, the root being the mover's
\* node) is handed the object together with an order to place a disc; every
\* deeper call works on the boards that call returned.
SearchInput(player, b, depth_limit) ==
    IF depth_limit = 0 \/ Terminal(b)
    THEN b
    ELSE GetChildBoards(player, b).input

CallMinimax(player, depth_limit) ==
    /\ call = NoCall
    /\ player \in Movers
    /\ call' = SearchCall("minimax", player, depth_limit,
                          Minimax(player, board, depth_limit), 1)
    /\ board' = SearchInput(player, board, depth_limit)
    /\ UNCHANGED turn

CallAlphabeta(player, depth_limit) ==
    /\ call = NoCall
    /\ player \in Movers
    /\ call' = SearchCall("alphabeta", player, depth_limit,
                          Alphabeta(player, board, depth_limit), 1)
    /\ board' = SearchInput(player, board, depth_limit)
    /\ UNCHANGED turn

CallExpectimax(player, depth_limit) ==
    /\ call = NoCall
    /\ player \in Movers
    /\ call' = SearchCall("expectimax", player, depth_limit,
                          Expectimax(player, board, depth_limit),
                          Unit(board.cols, TRUE, depth_limit))
    /\ board' = SearchInput(player, board, depth_limit)
    /\ UNCHANGED turn

\* the caller takes the result and goes on
Return ==
    /\ call # NoCall
    /\ call' = NoCall
    /\ UNCHANGED <<board, turn>>

\* Games on the small boards, every function called at every position.
Init == \E size \in SmallBoards : InitOn(size)

Next ==
    \/ \E c \in 0..(board.cols - 1) : PlaceDisc(c)
    \/ \E p \in Players : CallGetChildBoards(p)
    \/ \E p \in Players : CallEvaluate(p)
    \/ \E p \in Players, d \in 0..MaxDepth : CallMinimax(p, d)
    \/ \E p \in Players, d \in 0..MaxDepth : CallAlphabeta(p, d)
    \/ \E p \in Players, d \in 0..MaxDepth : CallExpectimax(p, d)
    \/ Return

Spec == Init /\ [][Next]_vars

\* Short games on the bigger boards, the evaluator and the move generator
\* called at every position.
InitEval == \E size \in EvalBoards : InitOn(size)

PlaceDiscEval(c) == Drop(c, EvalDiscs)

NextEval ==
    \/ \E c \in 0..(board.cols - 1) : PlaceDiscEval(c)
    \/ \E p \in Players : CallGetChildBoards(p)
    \/ \E p \in Players : CallEvaluate(p)
    \/ Return

SpecEval == InitEval /\ [][NextEval]_vars

\* the columns where a disc of the player completes a line of four
WinningCols(b, player) ==
    {c \in 0..(b.cols - 1) :
        Placeable(b, c) /\ WhoWins(Place(b, player, c)) = player}

\* Player1 is to move and has three discs in a horizontal window of four
\* whose fourth slot is empty and is where a disc dropped in its column lands
WinScenario(b) ==
    /\ ~Terminal(b)
    /\ turn = PLAYER1
    /\ \E r \in 0..(b.rows - 1), c \in 0..(b.cols - 4) :
          \E k \in 0..3 :
             /\ b.grid[r + 1][c + k + 1] = EMPTY_SLOT
             /\ Placeable(b, c + k)
             /\ LandingRow(b, c + k, b.rows - 1) = r
             /\ \A j \in (0..3) \ {k} : b.grid[r + 1][c + j + 1] = PLAYER1

\* Player1 is to move and Player2 would win with its next disc
BlockScenario(b) ==
    /\ ~Terminal(b)
    /\ turn = PLAYER1
    /\ WinningCols(b, PLAYER2) # {}

\* Games on the big board, the searches run for Player1 where it can
\* complete a horizontal line of four.
InitWin == InitOn(BigBoard)

NextWin ==
    \/ \E c \in 0..(board.cols - 1) : PlaceDisc(c)
    \/ \E d \in 1..MaxDepth : WinScenario(board) /\ CallMinimax(PLAYER1, d)
    \/ \E d \in 1..MaxDepth : WinScenario(board) /\ CallAlphabeta(PLAYER1, d)
    \/ \E d \in 1..MaxDepth : WinScenario(board) /\ CallExpectimax(PLAYER1, d)
    \/ Return

SpecWin == InitWin /\ [][NextWin]_vars

\* Games on the big board, minimax and alphabeta run for Player1 where
\* Player2 threatens to win.
InitBlock == InitOn(BigBoard)

NextBlock ==
    \/ \E c \in 0..(board.cols - 1) : PlaceDisc(c)
    \/ \E d \in 2..MaxDepth : BlockScenario(board) /\ CallMinimax(PLAYER1, d)
    \/ \E d \in 2..MaxDepth : BlockScenario(board) /\ CallAlphabeta(PLAYER1, d)
    \/ Return

SpecBlock == InitBlock /\ [][NextBlock]_vars

\* ========================================================================
\* The claims
\* ========================================================================
IsSearch == call.op \in {"minimax", "alphabeta", "expectimax"}

PlaceableCols(b) == {c \in 0..(b.cols - 1) : Placeable(b, c)}

\* ------------------------------------------------------------------------
\* C1
\* ------------------------------------------------------------------------
\* C1: for every player, board and depthLimit >= 1, alphabeta returns the
\* same column, or the same None, as minimax.
C1_AlphabetaIsMinimax ==
    (call.op = "alphabeta" /\ call.depth >= 1) =>
        call.col = Minimax(call.player, board, call.depth).col

\* alphabeta has pruned (it has expanded fewer nodes than minimax does) and
\* has returned a column
C1_Witness ==
    /\ call.op = "alphabeta"
    /\ call.depth >= 3
    /\ call.col # None
    /\ call.calls < Minimax(call.player, board, call.depth).calls

\* ------------------------------------------------------------------------
\* C2
\* ------------------------------------------------------------------------
\* C2, as claimed: where Player1 has three discs in a row horizontally with
\* a placeable fourth slot and is to move, minimax, alphabeta and expectimax
\* called for Player1 with any depthLimit >= 1 return a column that completes
\* a line of four.
C2_CompletesFour ==
    (IsSearch /\ call.player = PLAYER1 /\ call.depth >= 1 /\ WinScenario(board))
        => call.col \in WinningCols(board, PLAYER1)

\* C2, amended: so they do with depthLimit 1 or 2.
C2_CompletesFourShallow ==
    (IsSearch /\ call.player = PLAYER1 /\ call.depth \in {1, 2}
        /\ WinScenario(board))
        => call.col \in WinningCols(board, PLAYER1)

\* a two-ply search has returned the winning column, passing over a column
\* left of it that has room and does not win
C2_Witness ==
    /\ IsSearch
    /\ call.player = PLAYER1
    /\ call.depth = 2
    /\ WinScenario(board)
    /\ call.col \in WinningCols(board, PLAYER1)
    /\ \E c \in PlaceableCols(board) :
          c < call.col /\ c \notin WinningCols(board, PLAYER1)

\* ------------------------------------------------------------------------
\* C3
\* ------------------------------------------------------------------------
\* C3, as claimed: where Player2 threatens to win in one move and Player1 is
\* to move, minimax and alphabeta called for Player1 with any depthLimit >= 2
\* return the column that blocks Player2's winning move.
C3_Blocks ==
    (call.op \in {"minimax", "alphabeta"} /\ call.player = PLAYER1
        /\ call.depth >= 2 /\ BlockScenario(board))
        => call.col \in WinningCols(board, PLAYER2)

\* Player2 has one winning column, Player1 has none, and Player1's disc in
\* that column leaves Player2 without a winning move
OneThreat(b) ==
    /\ BlockScenario(b)
    /\ Cardinality(WinningCols(b, PLAYER2)) = 1
    /\ WinningCols(b, PLAYER1) = {}
    /\ \A c \in WinningCols(b, PLAYER2) :
          WinningCols(Place(b, PLAYER1, c), PLAYER2) = {}

\* C3, amended: where Player1 is to move and cannot win with its next disc,
\* Player2 has exactly one winning column, and Player1's disc in that column
\* leaves Player2 without a winning move, minimax and alphabeta called for
\* Player1 with depthLimit 2 or 3 return that column.
C3_BlocksOneThreat ==
    (call.op \in {"minimax", "alphabeta"} /\ call.player = PLAYER1
        /\ call.depth \in {2, 3} /\ OneThreat(board))
        => call.col \in WinningCols(board, PLAYER2)

\* a search has returned the blocking column, passing over a column left of
\* it that has room
C3_Witness ==
    /\ call.op \in {"minimax", "alphabeta"}
    /\ call.player = PLAYER1
    /\ call.depth \in {2, 3}
    /\ OneThreat(board)
    /\ call.col \in WinningCols(board, PLAYER2)
    /\ \E c \in PlaceableCols(board) : c < call.col

\* ------------------------------------------------------------------------
\* C4
\* ------------------------------------------------------------------------
\* C4, as claimed: for a positive depth limit a search returns None only
\* when the root board has no placeable column, and a column index whenever
\* a column is placeable.
C4_NoneOnlyWithoutLegalMove ==
    (IsSearch /\ call.depth >= 1) =>
        ((call.col = None) <=> (PlaceableCols(board) = {}))

\* C4, amended: for a positive depth limit a search returns None only when
\* the root board is terminal (won, or full), and a column index whenever the
\* root board is not terminal.
C4_NoneOnlyWhenTerminal ==
    (IsSearch /\ call.depth >= 1) =>
        /\ (call.col = None) <=> Terminal(board)
        /\ call.col # None => call.col \in PlaceableCols(board)

\* a search with a positive depth limit has returned None on a won board
\* that still has a placeable column
C4_Witness ==
    /\ IsSearch
    /\ call.depth >= 1
    /\ call.col = None
    /\ WhoWins(board) # None
    /\ PlaceableCols(board) # {}

\* ------------------------------------------------------------------------
\* C5
\* ------------------------------------------------------------------------
\* C5: if the root board is terminal, then for every depthLimit each search
\* yields (None, evaluate(player, board)) without a call of get_child_boards,
\* whoever the winner is.
C5_TerminalRoot ==
    (IsSearch /\ Terminal(board)) =>
        /\ call.col = None
        /\ ~call.raised
        /\ call.score = Evaluate(call.player, board) * call.unit
        /\ call.calls = 0

\* a search with a positive depth limit has run for the player who lost, on
\* a won board with room left
C5_Witness ==
    /\ IsSearch
    /\ call.depth >= 1
    /\ WhoWins(board) = Other(call.player)
    /\ PlaceableCols(board) # {}
    /\ call.col = None

\* ------------------------------------------------------------------------
\* C6
\* ------------------------------------------------------------------------
\* C6: expectimax never computes an expectation over zero legal moves (the
\* division 1 / len(moves) never raises): a board without a legal move is
\* terminal and yields the static evaluation.
C6_NoEmptyExpectation ==
    /\ call.op = "expectimax" => ~call.raised
    /\ \A player \in Players, d \in 0..MaxDepth :
          Full(board) =>
              /\ ~ExpectimaxValue(player, Other(player), board, d).raised
              /\ ExpectimaxValue(player, Other(player), board, d).score
                    = Evaluate(player, board) * Unit(board.cols, FALSE, d)

\* expectimax has searched two plies or more from a board with one empty
\* slot: the move into it leaves a drawn, full board to the adversary
C6_Witness ==
    /\ call.op = "expectimax"
    /\ call.depth >= 2
    /\ ~call.raised
    /\ ~Terminal(board)
    /\ \E c \in PlaceableCols(board) :
          /\ Full(Place(board, call.player, c))
          /\ WhoWins(Place(board, call.player, c)) = None

\* ------------------------------------------------------------------------
\* C9
\* ------------------------------------------------------------------------
\* the least and the greatest of a non-empty set of scores
Least(S) == CHOOSE x \in S : \A y \in S : x <= y
Greatest(S) == CHOOSE x \in S : \A y \in S : x >= y

\* the minimax value of a position: the static evaluation at the cutoff and
\* on a terminal board, else the greatest (the max player to move) or the
\* least (the adversary to move) of the values of the positions one move on
RECURSIVE GameValue(_, _, _, _)
GameValue(max_player, mover, b, depth) ==
    IF depth = 0 \/ Terminal(b) THEN Evaluate(max_player, b)
    ELSE LET below == {GameValue(max_player, Other(mover),
                                 Place(b, mover, c), depth - 1) :
                          c \in PlaceableCols(b)}
         IN  IF mover = max_player THEN Greatest(below) ELSE Least(below)

\* the value of the child of the root in column c
ChildValue(player, b, depth, c) ==
    GameValue(player, Other(player), Place(b, player, c), depth - 1)

\* C9: on a non-terminal board and for depthLimit >= 1, minimax returns the
\* lowest placeable column whose child value is the maximum over all
\* children.
C9_MinimaxLowestBest ==
    (call.op = "minimax" /\ call.depth >= 1 /\ ~Terminal(board)) =>
        /\ call.col \in PlaceableCols(board)
        /\ \A c \in PlaceableCols(board) :
              /\ ChildValue(call.player, board, call.depth, c)
                    <= ChildValue(call.player, board, call.depth, call.col)
              /\ ChildValue(call.player, board, call.depth, c)
                    = ChildValue(call.player, board, call.depth, call.col)
                 => call.col <= c

\* minimax has searched two plies or more and has returned the first of two
\* columns whose children tie for the maximum
C9_Witness ==
    /\ call.op = "minimax"
    /\ call.depth >= 2
    /\ ~Terminal(board)
    /\ call.col # None
    /\ \E c \in PlaceableCols(board) :
          /\ c > call.col
          /\ ChildValue(call.player, board, call.depth, c)
                = ChildValue(call.player, board, call.depth, call.col)

\* ------------------------------------------------------------------------
\* C7
\* ------------------------------------------------------------------------
\* after is before with one more disc, the player's, come to rest in column c:
\* on the lowest empty slot of the column, every other slot as it was
DroppedInto(before, after, player, c) ==
    /\ after.rows = before.rows
    /\ after.cols = before.cols
    /\ \E r \in 1..before.rows :
          /\ before.grid[r][c + 1] = EMPTY_SLOT
          /\ \A q \in (r + 1)..before.rows : before.grid[q][c + 1] # EMPTY_SLOT
          /\ after.grid[r][c + 1] = player
          /\ \A q \in 1..before.rows, d \in 1..before.cols :
                (q # r \/ d # c + 1) => after.grid[q][d] = before.grid[q][d]

\* C7: get_child_boards(player, board) returns one (column, new_board) pair
\* for exactly each placeable column, in strictly ascending column order,
\* new_board being the input board with the player's disc dropped in that
\* column; the input board is left unchanged, and the result is empty exactly
\* when no column is placeable.
C7_ChildBoards ==
    call.op = "get_child_boards" =>
        /\ board = call.before
        /\ {call.res[i][1] : i \in 1..Len(call.res)} = PlaceableCols(call.before)
        /\ \A i \in 1..(Len(call.res) - 1) : call.res[i][1] < call.res[i + 1][1]
        /\ \A i \in 1..Len(call.res) :
              DroppedInto(call.before, call.res[i][2], call.player, call.res[i][1])
        /\ (call.res = <<>>) <=> (PlaceableCols(call.before) = {})

\* get_child_boards has run on a board with a full column left of a column
\* with room, and has returned the moves into the columns with room
C7_Witness ==
    /\ call.op = "get_child_boards"
    /\ Len(call.res) >= 2
    /\ \E c \in 0..(board.cols - 2) :
          ~Placeable(call.before, c) /\ Placeable(call.before, c + 1)

\* ------------------------------------------------------------------------
\* C8
\* ------------------------------------------------------------------------
\* C8: evaluate(P, board) == -evaluate(Q, board) for the two players P and Q.
C8_EvaluateAntisymmetric ==
    call.op = "evaluate" =>
        call.score = 0 - Evaluate(Other(call.player), board)

\* evaluate has run on a board it does not score 0, with discs of both players
C8_Witness ==
    /\ call.op = "evaluate"
    /\ call.score > 0
    /\ Discs(board) >= 4

\* ------------------------------------------------------------------------
\* C10
\* ------------------------------------------------------------------------
\* the lines of four slots that lie on the board, each by its first slot
\* (r, c) and its direction
Lines(b) ==
    {l \in (0..(b.rows - 1)) \X (0..(b.cols - 1)) \X Directions :
        /\ l[1] + 3 * l[3][1] \in 0..(b.rows - 1)
        /\ l[2] + 3 * l[3][2] \in 0..(b.cols - 1)}

\* the number of slots of line l that hold v
LineCount(b, l, v) ==
    Cardinality({i \in 0..3 :
        b.grid[l[1] + i * l[3][1] + 1][l[2] + i * l[3][2] + 1] = v})

\* what line l adds to the score of player
LineScore(b, l, player) ==
    LET mine == LineCount(b, l, player)
        theirs == LineCount(b, l, Other(player))
    IN  (IF theirs = 0 THEN weights[mine + 1] ELSE 0)
            - (IF mine = 0 THEN weights[theirs + 1] ELSE 0)

RECURSIVE SumLines(_, _, _)
SumLines(b, ls, player) ==
    IF ls = {} THEN 0
    ELSE LET l == CHOOSE x \in ls : TRUE
         IN  LineScore(b, l, player) + SumLines(b, ls \ {l}, player)

\* the evaluator by bounds-checked traversal of the lines of the board
ReferenceEvaluate(player, b) == SumLines(b, Lines(b), player)

\* C10: evaluate(player, board) equals the bounds-checked reference
\* evaluator: every real line of four slots counted once, no window that
\* straddles the board edge counted.
C10_EvaluateIsReference ==
    call.op = "evaluate" =>
        call.score = ReferenceEvaluate(call.player, board)

\* evaluate has run on a board with two discs of the player on one diagonal
\* line and none of the adversary on it
C10_Witness ==
    /\ call.op = "evaluate"
    /\ \E l \in Lines(board) :
          /\ l[3][1] = 1 /\ l[3][2] # 0
          /\ LineCount(board, l, call.player) >= 2
          /\ LineCount(board, l, Other(call.player)) = 0

\* ------------------------------------------------------------------------
\* C11
\* ------------------------------------------------------------------------
\* C11: on every non-terminal board and for every depthLimit >= 1, each of
\* minimax, alphabeta and expectimax returns a column index, never None, that
\* lies in 0..cols-1 and is placeable on the input board, and the input board
\* is the same after the call as before it.
C11_PlaceableColumnInputKept ==
    (IsSearch /\ call.depth >= 1 /\ ~Terminal(call.before)) =>
        /\ call.col # None
        /\ 0 <= call.col /\ call.col < call.before.cols
        /\ Placeable(call.before, call.col)
        /\ board = call.before

\* a search has run on a board in play whose leftmost column is full and
\* has returned a column right of it, its best child scoring below zero,
\* with the board left as it was
C11_Witness ==
    /\ IsSearch
    /\ call.depth >= 1
    /\ ~Terminal(call.before)
    /\ ~Placeable(call.before, 0)
    /\ call.col > 0
    /\ Placeable(call.before, call.col)
    /\ call.score < 0
    /\ board = call.before

====
